---- MODULE Spec2Model ----
(***************************************************************************)
(* Adaptive diagnostic core of Vision2AR: the belief engine                *)
(* (backend/diagnosis/belief_engine.py), the tutorial retrieval pipeline   *)
(* (backend/analysis/tutorial_matcher.py) and the session orchestration of *)
(* the /api/v2/diagnose endpoints (backend/main.py).                       *)
(*                                                                         *)
(* Python floats are modelled as exact rationals <<n, d>> in lowest terms  *)
(* with d > 0; a dict is a sequence of entries in insertion order.         *)
(***************************************************************************)
EXTENDS Integers, Sequences, FiniteSets, TLC

\* --------------------------------------------------------------------------
\* Rational arithmetic (the float operations of the source)
\* --------------------------------------------------------------------------
RECURSIVE GCD(_, _)
GCD(a, b) ==
    IF b = 0 THEN a ELSE GCD(b, a % b)

Abs(x) ==
    IF x < 0 THEN 0 - x ELSE x

\* G applied to the value v: the value is computed once, however often G uses it
With(v, G(_)) == G(v)

Rat(n, d) ==
    IF n = 0 THEN <<0, 1>>
    ELSE With(GCD(Abs(n), Abs(d)), LAMBDA g :
             IF d < 0 THEN <<(0 - n) \div g, (0 - d) \div g>> ELSE <<n \div g, d \div g>>)

Zero == <<0, 1>>
One == <<1, 1>>

\* the operations cancel common factors before they multiply, so that the
\* intermediate products stay small
RAdd(x, y) ==
    With(GCD(x[2], y[2]), LAMBDA g :
        Rat(x[1] * (y[2] \div g) + y[1] * (x[2] \div g), (x[2] \div g) * y[2]))
RSub(x, y) == RAdd(x, <<0 - y[1], y[2]>>)
RMulBy(x, y, g1, g2) ==
    Rat((x[1] \div g1) * (y[1] \div g2), (x[2] \div g2) * (y[2] \div g1))
RMul(x, y) == RMulBy(x, y, GCD(Abs(x[1]), y[2]), GCD(Abs(y[1]), x[2]))
RDiv(x, y) == RMul(x, <<y[2], y[1]>>)
RLt(x, y) ==
    IF x[2] = y[2] THEN x[1] < y[1]
    ELSE With(GCD(x[2], y[2]), LAMBDA g : x[1] * (y[2] \div g) < y[1] * (x[2] \div g))
RLe(x, y) == ~RLt(y, x)
RMax(x, y) == IF RLt(x, y) THEN y ELSE x

\* --------------------------------------------------------------------------
\* Dict helpers: a belief vector is a Python dict, i.e. a sequence of
\* [cause, p] entries in insertion order
\* --------------------------------------------------------------------------
Keys(b) == {b[i].cause : i \in 1..Len(b)}

Get(b, c, default) ==
    IF c \in Keys(b)
    THEN LET i == CHOOSE j \in 1..Len(b) : b[j].cause = c IN b[i].p
    ELSE default

\* beliefs[cause] = v : overwrite in place, or append a new key
SetItem(b, c, v) ==
    IF c \in Keys(b)
    THEN [i \in 1..Len(b) |-> IF b[i].cause = c THEN [cause |-> c, p |-> v] ELSE b[i]]
    ELSE Append(b, [cause |-> c, p |-> v])

RECURSIVE SumFrom(_, _)
SumFrom(b, i) ==
    IF i > Len(b) THEN Zero ELSE RAdd(b[i].p, SumFrom(b, i + 1))

\* sum(beliefs.values())
Total(b) == SumFrom(b, 1)

\* Normalize without the division by the total
Normalize_Skip(b) == b

\* total = sum(...); if total > 0: {k: v / total ...}
Normalize(b) ==
    With(Total(b), LAMBDA total :
        IF RLt(Zero, total)
        THEN [i \in 1..Len(b) |-> [cause |-> b[i].cause, p |-> RDiv(b[i].p, total)]]
        ELSE b)

\* insertion of e into a sequence sorted by descending p, after its equals
RECURSIVE InsertDesc(_, _)
InsertDesc(s, e) ==
    IF s = <<>> THEN <<e>>
    ELSE IF RLt(Head(s).p, e.p) THEN <<e>> \o s
    ELSE <<Head(s)>> \o InsertDesc(Tail(s), e)

\* dict(sorted(items, key=lambda x: x[1], reverse=True)) : stable, descending
RECURSIVE SortDesc(_)
SortDesc(b) ==
    IF b = <<>> THEN <<>>
    ELSE InsertDesc(SortDesc(SubSeq(b, 1, Len(b) - 1)), b[Len(b)])

\* --------------------------------------------------------------------------
\* Knowledge loaded by BeliefEngine._load_base_knowledge and the learned
\* tables of the database
\* --------------------------------------------------------------------------
E(c, n, d) == [cause |-> c, p |-> <<n, d>>]

\* self.base_patterns (symptom_mappings.json), in file order
base_patterns ==
    << [category |-> "Laptop", symptoms |-> {"no_power", "led_off"},
        causes |-> <<E("power_supply", 4, 5), E("battery", 1, 5)>>, confidence |-> <<1, 1>>],
       [category |-> "Laptop", symptoms |-> {"no_charge"},
        causes |-> <<E("battery", 1, 1)>>, confidence |-> <<1, 10>>],
       [category |-> "Laptop", symptoms |-> {"overheating"},
        causes |-> <<E("battery", 1, 2), E("power_supply", 1, 2)>>, confidence |-> <<1, 1>>],
       [category |-> "Phone", symptoms |-> {"no_power"},
        causes |-> <<E("battery", 3, 5), E("motherboard_dead", 2, 5)>>, confidence |-> <<4, 5>>],
       [category |-> "Tablet", symptoms |-> {"no_power", "no_charge"},
        causes |-> <<E("battery", 3, 5), E("motherboard_dead", 2, 5)>>, confidence |-> <<1, 1>>] >>

\* rows that learned_patterns can hold with approved = true; approve_pattern
\* stores success_rate 0 for a candidate with observed_count 0
LearnedPatternPool ==
    { [category |-> "Laptop", symptom_combination |-> {"no_power"},
       cause |-> "motherboard_dead", success_rate |-> <<3, 4>>, support_count |-> 8],
      [category |-> "Phone", symptom_combination |-> {"led_off"},
       cause |-> "motherboard_dead", success_rate |-> <<0, 1>>, support_count |-> 0] }

\* 1 - math.exp(-n / n0) with n0 = 5, to two decimals, for the support
\* counts of LearnedPatternPool
ExpDamp(n) ==
    CASE n = 0 -> <<0, 1>>
      [] n = 3 -> <<9, 20>>
      [] n = 5 -> <<63, 100>>
      [] n = 8 -> <<4, 5>>

alpha == <<7, 10>>

\* the order in which conn.fetch returns the rows of a set of learned patterns
RECURSIVE RowsOf(_)
RowsOf(S) ==
    IF S = {} THEN <<>>
    ELSE LET r == CHOOSE x \in S : \A y \in S : x.support_count >= y.support_count
         IN  <<r>> \o RowsOf(S \ {r})

\* beliefs[cause] += v, creating the key at 0.0 first
AddTo(b, c, v) == SetItem(b, c, RAdd(Get(b, c, Zero), v))

\* OverlapRatio taken over the observed symptoms instead of the pattern's
OverlapRatio_OverInput(pattern_symptoms, all_symptoms) ==
    <<Cardinality(pattern_symptoms \cap all_symptoms), Cardinality(all_symptoms)>>

OverlapRatio(pattern_symptoms, all_symptoms) ==
    <<Cardinality(pattern_symptoms \cap all_symptoms), Cardinality(pattern_symptoms)>>

RECURSIVE AddCauses(_, _, _, _)
AddCauses(b, causes, i, w) ==
    IF i > Len(causes) THEN b
    ELSE AddCauses(AddTo(b, causes[i].cause, RMul(w, causes[i].p)), causes, i + 1, w)

\* Step 1 of initialize_beliefs: the loop over self.base_patterns
RECURSIVE BaseStep(_, _, _, _)
BaseStep(b, i, all_symptoms, category) ==
    IF i > Len(base_patterns) THEN b
    ELSE LET pattern == base_patterns[i]
             ratio == OverlapRatio(pattern.symptoms, all_symptoms)
             w == RMul(alpha, RMul(Rat(ratio[1], ratio[2]), pattern.confidence))
         IN  IF pattern.category = category /\ pattern.symptoms \cap all_symptoms # {}
             THEN BaseStep(AddCauses(b, pattern.causes, 1, w), i + 1, all_symptoms, category)
             ELSE BaseStep(b, i + 1, all_symptoms, category)

\* Step 2 of initialize_beliefs: the loop over the approved learned patterns
RECURSIVE LearnedStep(_, _, _, _)
LearnedStep(b, rows, i, all_symptoms) ==
    IF i > Len(rows) THEN b
    ELSE LET lp == rows[i]
             ratio == OverlapRatio(lp.symptom_combination, all_symptoms)
             w == RMul(lp.success_rate, ExpDamp(lp.support_count))
             learned_weight == RSub(One, alpha)
         IN  IF lp.symptom_combination \cap all_symptoms # {}
             THEN LearnedStep(AddTo(b, lp.cause, RMul(learned_weight, RMul(w, Rat(ratio[1], ratio[2])))),
                              rows, i + 1, all_symptoms)
             ELSE LearnedStep(b, rows, i + 1, all_symptoms)

initialize_beliefs(symptoms, visual_symptoms, category, learned) ==
    LET all_symptoms == symptoms \cup visual_symptoms
        rows == RowsOf({lp \in learned : lp.category = category})
        beliefs == LearnedStep(BaseStep(<<>>, 1, all_symptoms, category), rows, 1, all_symptoms)
    IN  SortDesc(Normalize(beliefs))

\* get_confidence : max(beliefs.values()) if beliefs else 0.0
RECURSIVE MaxFrom(_, _)
MaxFrom(b, i) ==
    IF i > Len(b) THEN Zero ELSE RMax(b[i].p, MaxFrom(b, i + 1))

get_confidence(beliefs) == MaxFrom(beliefs, 1)

\* get_diagnosis : max(beliefs, key=beliefs.get) is the first key holding the maximum
get_diagnosis(beliefs) ==
    IF beliefs = <<>> THEN "unknown"
    ELSE With(get_confidence(beliefs), LAMBDA m :
             beliefs[CHOOSE j \in 1..Len(beliefs) :
                         /\ beliefs[j].p = m
                         /\ \A k \in 1..(j - 1) : beliefs[k].p # m].cause)

\* --------------------------------------------------------------------------
\* Questions and update_beliefs
\* --------------------------------------------------------------------------
\* a multiplier string "*f"; kind "malformed" is a string "*..." float() rejects
M(c, n, d) == [cause |-> c, kind |-> "star", f |-> <<n, d>>]
Malformed(c) == [cause |-> c, kind |-> "malformed", f |-> <<0, 1>>]

\* skip_if: each key is absent ({}) or present with one value ({v})
NoSkip ==
    [brand_confidence |-> {}, symptom_present |-> {}, symptom_not_present |-> {},
     visual_symptoms_detected |-> {}]

\* self.base_questions (questions.json): id -> question
base_questions ==
    [ battery_led |->
        [category |-> "Laptop", information_gain_estimate |-> <<4, 5>>,
         skip_if |-> [NoSkip EXCEPT !.symptom_present = {{"no_charge"}}],
         belief_updates |-> [no |-> <<M("power_supply", 9, 5), M("battery", 3, 5)>>,
                             yes |-> <<M("battery", 3, 2), M("power_supply", 1, 2)>>]],
      q_fan_spin |->
        [category |-> "Laptop", information_gain_estimate |-> <<7, 10>>,
         skip_if |-> [NoSkip EXCEPT !.visual_symptoms_detected = {{"led_off"}}],
         belief_updates |-> [yes |-> <<M("power_supply", 6, 5), M("motherboard_dead", 2, 1)>>]],
      q_brand |->
        [category |-> "Laptop", information_gain_estimate |-> <<1, 2>>,
         skip_if |-> [NoSkip EXCEPT !.brand_confidence = {<<4, 5>>}],
         belief_updates |-> [yes |-> <<M("battery", 11, 10)>>]],
      q_screen_crack |->
        [category |-> "Tablet", information_gain_estimate |-> <<4, 5>>,
         skip_if |-> [NoSkip EXCEPT !.symptom_not_present = {{"no_power", "led_off"}}],
         belief_updates |-> [yes |-> <<M("motherboard_dead", 3, 2)>>,
                             no |-> <<M("battery", 3, 2)>>]],
      q_charge_port |->
        [category |-> "Tablet", information_gain_estimate |-> <<4, 5>>,
         skip_if |-> NoSkip,
         belief_updates |-> [yes |-> <<M("battery", 2, 1)>>,
                             no |-> <<M("motherboard_dead", 2, 1)>>]],
      q_speaker |->
        [category |-> "Tablet", information_gain_estimate |-> <<7, 10>>,
         skip_if |-> NoSkip,
         belief_updates |-> [yes |-> <<M("speaker_fault", 2, 1)>>]] ]

\* the iteration order of self.base_questions
BaseQuestionOrder ==
    <<"battery_led", "q_fan_spin", "q_brand", "q_screen_crack", "q_charge_port", "q_speaker">>

BaseQuestionIds == DOMAIN base_questions

\* rows that learned_questions can hold with approved = true
LearnedQuestionPool ==
    { [question_id |-> "lq_adapter", category |-> "Laptop", information_gain_avg |-> <<9, 10>>,
       belief_updates_json |-> [yes |-> <<M("power_supply", 3, 2), Malformed("battery")>>]] }

\* UpdatesFor falling back to the "yes" entry for an answer without an entry
UpdatesFor_DefaultYes(belief_updates, answer) ==
    IF answer \in DOMAIN belief_updates THEN belief_updates[answer] ELSE belief_updates["yes"]

\* question.get("belief_updates", {}).get(answer, {})
UpdatesFor(belief_updates, answer) ==
    IF answer \in DOMAIN belief_updates THEN belief_updates[answer] ELSE <<>>

\* ApplyUpdates without the "if cause in current_beliefs" test: an absent
\* cause is created from current_beliefs.get(cause, 0.0)
RECURSIVE ApplyUpdates_Seeding(_, _, _)
ApplyUpdates_Seeding(b, updates, i) ==
    IF i > Len(updates) THEN [beliefs |-> b, raised |-> FALSE]
    ELSE LET u == updates[i]
         IN  IF u.kind = "star"
             THEN ApplyUpdates_Seeding(SetItem(b, u.cause, RMul(Get(b, u.cause, Zero), u.f)),
                                       updates, i + 1)
             ELSE [beliefs |-> b, raised |-> TRUE]

\* the for loop over updates.items(): multiplies in place, float() raises
\* ValueError on a malformed multiplier of a cause that is present
RECURSIVE ApplyUpdates(_, _, _)
ApplyUpdates(b, updates, i) ==
    IF i > Len(updates) THEN [beliefs |-> b, raised |-> FALSE]
    ELSE LET u == updates[i]
         IN  IF u.cause \in Keys(b)
             THEN IF u.kind = "star"
                  THEN ApplyUpdates(SetItem(b, u.cause, RMul(Get(b, u.cause, Zero), u.f)), updates, i + 1)
                  ELSE [beliefs |-> b, raised |-> TRUE]
             ELSE ApplyUpdates(b, updates, i + 1)

\* the lookup of update_beliefs: base question first, then the approved
\* learned question of that id; <<>> when there is nothing to apply
LookupUpdates(question_id, answer, learned_q) ==
    IF question_id \in BaseQuestionIds
    THEN UpdatesFor(base_questions[question_id].belief_updates, answer)
    ELSE IF \E lq \in learned_q : lq.question_id = question_id
         THEN LET row == CHOOSE lq \in learned_q : lq.question_id = question_id
              IN  UpdatesFor(row.belief_updates_json, answer)
         ELSE <<>>

\* update_beliefs.  ret: the returned dict; raised: an exception left the
\* function; arg: the argument dict object after the call (it is multiplied in
\* place); same: the returned dict is the argument object itself
update_beliefs(current_beliefs, question_id, answer, learned_q) ==
    With(LookupUpdates(question_id, answer, learned_q), LAMBDA updates :
        IF updates = <<>>
        THEN [ret |-> current_beliefs, raised |-> FALSE, arg |-> current_beliefs, same |-> TRUE]
        ELSE With(ApplyUpdates(current_beliefs, updates, 1), LAMBDA r :
                 IF r.raised
                 THEN [ret |-> <<>>, raised |-> TRUE, arg |-> r.beliefs, same |-> FALSE]
                 ELSE [ret |-> SortDesc(Normalize(r.beliefs)), raised |-> FALSE,
                       arg |-> r.beliefs, same |-> FALSE]))

\* the answers a client sends; the text answers are longer than 10 characters
TextDead == "it is completely dead, no power at all"
TextPlain == "it was fine until yesterday evening"
Bypass == "show tutorials"
LongAnswers == {TextDead, TextPlain, Bypass}

\* the keywords of update_beliefs_semantic that occur in an answer
KeywordsIn(answer_text) ==
    IF answer_text = TextDead THEN {"power", "dead", "no power"} ELSE {}

\* symptom_keywords of update_beliefs_semantic, in dict order
symptom_keywords ==
    << [cause |-> "driver_issue", keywords |-> {"driver", "software", "update", "install"}],
       [cause |-> "malware", keywords |-> {"virus", "malware", "suspicious", "popup", "slow"}],
       [cause |-> "hardware_failure", keywords |-> {"hardware", "physical", "damaged", "broken"}],
       [cause |-> "display_cable_loose", keywords |-> {"screen", "display", "flicker", "blank"}],
       [cause |-> "gpu_overheating", keywords |-> {"hot", "overheat", "thermal", "fan loud"}],
       [cause |-> "ram_failure", keywords |-> {"memory", "ram", "beep"}],
       [cause |-> "power_supply_failure", keywords |-> {"power", "won't turn on", "dead"}],
       [cause |-> "motherboard_dead", keywords |-> {"motherboard", "no power", "nothing happens"}],
       [cause |-> "os_corruption", keywords |-> {"corrupt", "boot loop", "startup repair"}],
       [cause |-> "thermal_throttling", keywords |-> {"slow", "throttle", "performance drop", "overheat"}],
       [cause |-> "disk_fragmentation", keywords |-> {"slow", "lag", "disk", "storage"}],
       [cause |-> "background_processes", keywords |-> {"background", "startup", "many programs"}] >>

\* the loop "for cause, score in keyword_scores.items()" of the semantic update
RECURSIVE ApplySemantic(_, _, _)
ApplySemantic(b, hits, i) ==
    IF i > Len(symptom_keywords) THEN b
    ELSE LET cause == symptom_keywords[i].cause
             score == Cardinality(symptom_keywords[i].keywords \cap hits)
         IN  IF score > 0 /\ cause \in Keys(b)
             THEN ApplySemantic(SetItem(b, cause, RMul(Get(b, cause, Zero), Rat(2 + score, 2))), hits, i + 1)
             ELSE IF score >= 2
             THEN ApplySemantic(SetItem(b, cause, Rat(score, 10)), hits, i + 1)
             ELSE ApplySemantic(b, hits, i + 1)

\* update_beliefs_semantic, with the fields of update_beliefs
update_beliefs_semantic(current_beliefs, answer_text) ==
    LET hits == KeywordsIn(answer_text)
        scored == \E i \in 1..Len(symptom_keywords) : symptom_keywords[i].keywords \cap hits # {}
    IN  IF scored
        THEN With(ApplySemantic(current_beliefs, hits, 1), LAMBDA b :
                 [ret |-> SortDesc(Normalize(b)), raised |-> FALSE, arg |-> b, same |-> FALSE])
        ELSE [ret |-> current_beliefs, raised |-> FALSE, arg |-> current_beliefs, same |-> TRUE]

\* --------------------------------------------------------------------------
\* Question selection
\* --------------------------------------------------------------------------
NoQuestion == "None"

\* list(current_beliefs.keys())[:3]
TopCauses(b) == {b[i].cause : i \in 1..(IF Len(b) < 3 THEN Len(b) ELSE 3)}

\* the causes named by the belief_updates of any answer of a question
AffectedCauses(question) ==
    UNION {{question.belief_updates[a][i].cause : i \in 1..Len(question.belief_updates[a])} :
           a \in DOMAIN question.belief_updates}

InSeq(x, s) == \E i \in 1..Len(s) : s[i] = x

\* should_ask_question: the reason for skipping, "ask" when the question is to be asked
should_ask_question(question_id, current_beliefs, input, asked) ==
    IF question_id \notin BaseQuestionIds THEN "Question not found"
    ELSE IF InSeq(question_id, asked) THEN "Already asked"
    ELSE LET question == base_questions[question_id]
             skip == question.skip_if
             detected == input.symptoms \cup input.visual_symptoms
         IN  IF \E t \in skip.brand_confidence : RLt(t, input.brand_confidence)
             THEN "Brand already known"
             ELSE IF \E req \in skip.symptom_present : req \cap detected # {}
             THEN "Symptom already detected from input"
             ELSE IF \E req \in skip.symptom_not_present : req \cap detected = {}
             THEN "Question not relevant to detected symptoms"
             ELSE IF \E req \in skip.visual_symptoms_detected : req \cap input.visual_symptoms # {}
             THEN "Visual analysis already provided this information"
             ELSE IF RLt(question.information_gain_estimate, <<3, 5>>)
             THEN "Low information gain"
             ELSE IF AffectedCauses(question) \cap TopCauses(current_beliefs) = {}
             THEN "Question doesn't help distinguish top causes"
             ELSE IF RLt(<<9, 10>>, get_confidence(current_beliefs))
             THEN "Already have very high confidence"
             ELSE "ask"

\* the question ids of a set of learned_questions rows, in fetch order
RECURSIVE LearnedIds(_)
LearnedIds(S) ==
    IF S = {} THEN <<>>
    ELSE LET r == CHOOSE x \in S : TRUE IN <<r.question_id>> \o LearnedIds(S \ {r})

\* candidate_questions: unasked base questions of the category in dict
\* order, then the approved learned questions of the category
Candidates(asked, category, learned_q) ==
    SelectSeq(BaseQuestionOrder,
              LAMBDA q : base_questions[q].category = category /\ ~InSeq(q, asked))
    \o LearnedIds({lq \in learned_q : lq.category = category /\ ~InSeq(lq.question_id, asked)})

GainOf(question_id, learned_q) ==
    IF question_id \in BaseQuestionIds
    THEN base_questions[question_id].information_gain_estimate
    ELSE (CHOOSE lq \in learned_q : lq.question_id = question_id).information_gain_avg

\* select_next_question: the id of the selected question, NoQuestion for None
select_next_question(current_beliefs, input, asked, category, learned_q) ==
    With(SelectSeq(Candidates(asked, category, learned_q),
                   LAMBDA q : should_ask_question(q, current_beliefs, input, asked) = "ask"),
         LAMBDA valid :
             IF valid = <<>> THEN NoQuestion
             ELSE valid[CHOOSE j \in 1..Len(valid) :
                            /\ \A k \in 1..Len(valid) :
                                   RLe(GainOf(valid[k], learned_q), GainOf(valid[j], learned_q))
                            /\ \A k \in 1..(j - 1) :
                                   RLt(GainOf(valid[k], learned_q), GainOf(valid[j], learned_q))])

\* f"text_general_{n}"
TextGeneralId(n) ==
    CASE n = 0 -> "text_general_0"
      [] n = 1 -> "text_general_1"
      [] n = 2 -> "text_general_2"
      [] n = 3 -> "text_general_3"
      [] n = 4 -> "text_general_4"
      [] OTHER -> "text_general_5"

\* question_templates of generate_text_question, in dict order
question_templates ==
    << [cause1 |-> "driver_issue", cause2 |-> "malware", id |-> "text_driver_issue_malware"],
       [cause1 |-> "driver_issue", cause2 |-> "hardware_failure", id |-> "text_driver_issue_hardware_failure"],
       [cause1 |-> "gpu_overheating", cause2 |-> "display_cable_loose", id |-> "text_gpu_overheating_display_cable_loose"],
       [cause1 |-> "power_supply_failure", cause2 |-> "motherboard_dead", id |-> "text_power_supply_failure_motherboard_dead"],
       [cause1 |-> "ram_failure", cause2 |-> "os_corruption", id |-> "text_ram_failure_os_corruption"],
       [cause1 |-> "thermal_throttling", cause2 |-> "background_processes", id |-> "text_thermal_throttling_background_processes"] >>

\* generate_text_question with one general question id for every call
generate_text_question_OneGeneralId(current_beliefs, asked) ==
    With(SortDesc(current_beliefs), LAMBDA sorted_beliefs :
        LET general_id == TextGeneralId(0)
            top == sorted_beliefs[1]
            second == sorted_beliefs[2]
            matches == SelectSeq(question_templates,
                           LAMBDA t : /\ \/ (top.cause = t.cause1 /\ second.cause = t.cause2)
                                         \/ (top.cause = t.cause2 /\ second.cause = t.cause1)
                                      /\ ~InSeq(t.id, asked))
        IN  IF Len(current_beliefs) < 2
            THEN IF ~InSeq(general_id, asked) THEN general_id ELSE NoQuestion
            ELSE IF RLt(<<3, 4>>, top.p) THEN NoQuestion
            ELSE IF matches # <<>> THEN matches[1].id
            ELSE IF ~InSeq(general_id, asked) THEN general_id
            ELSE NoQuestion)

\* generate_text_question: the id of the generated question, NoQuestion for None
generate_text_question(current_beliefs, asked) ==
    With(SortDesc(current_beliefs), LAMBDA sorted_beliefs :
        LET general_id == TextGeneralId(Len(asked))
            top == sorted_beliefs[1]
            second == sorted_beliefs[2]
            matches == SelectSeq(question_templates,
                           LAMBDA t : /\ \/ (top.cause = t.cause1 /\ second.cause = t.cause2)
                                         \/ (top.cause = t.cause2 /\ second.cause = t.cause1)
                                      /\ ~InSeq(t.id, asked))
        IN  IF Len(current_beliefs) < 2
            THEN IF ~InSeq(general_id, asked) THEN general_id ELSE NoQuestion
            ELSE IF RLt(<<3, 4>>, top.p) THEN NoQuestion
            ELSE IF matches # <<>> THEN matches[1].id
            ELSE IF ~InSeq(general_id, asked) THEN general_id
            ELSE NoQuestion)

\* --------------------------------------------------------------------------
\* Tutorial retrieval and ranking: TutorialMatcher
\* --------------------------------------------------------------------------
NoBrand == "None"

Tut(id, c, b, k) == [tutorial_id |-> id, category |-> c, brand |-> b, keywords |-> k]

\* the rows of the tutorials table; ingest_guide writes every row with the
\* same properties to the Tutorial class of the vector index
tutorials ==
    { Tut(7, "Laptop", "dell", {"battery", "charger", "dell", "laptop"}),
      Tut(9, "Phone", "dell", {"screen", "phone"}),
      Tut(3, "Laptop", "dell", {"fan", "heat"}),
      Tut(12, "Laptop", "hp", {"battery", "hp"}),
      Tut(14, "Phone", "apple", {"battery", "charger"}),
      Tut(10, "Laptop", "hp", {"keyboard"}) }

TutorialIds == {t.tutorial_id : t \in tutorials}

\* _additional.distance of a tutorial for the query text built around a
\* diagnosis, as the index snapshot reports it
distance(tutorial_id, diagnosis) ==
    CASE diagnosis = "power_supply" ->
             (CASE tutorial_id = 7 -> <<1, 5>>
                [] tutorial_id = 12 -> <<3, 10>>
                [] tutorial_id = 14 -> <<2, 5>>
                [] tutorial_id = 10 -> <<6, 5>>
                [] OTHER -> <<1, 2>>)
      [] diagnosis = "battery" ->
             (CASE tutorial_id = 7 -> <<3, 10>>
                [] tutorial_id = 12 -> <<1, 5>>
                [] tutorial_id = 14 -> <<1, 5>>
                [] tutorial_id = 10 -> <<1, 1>>
                [] OTHER -> <<1, 2>>)
      [] OTHER -> <<1, 2>>

beta == <<3, 5>>
gamma == <<3, 10>>

\* _vector_search: the hits with their vector_score, {} when the stage fails;
\* the where filter holds the brand only
vector_search(diagnosis, category, brand, ok) ==
    IF ~ok THEN {}
    ELSE { [tutorial_id |-> t.tutorial_id,
            score |-> RMax(Zero, RSub(One, distance(t.tutorial_id, diagnosis)))] :
           t \in {u \in tutorials : brand = NoBrand \/ u.brand = brand} }

\* _keyword_search: the rows with their Jaccard keyword_score, {} when the
\* stage fails; the WHERE clause holds the brand and the keyword overlap
keyword_search(keywords, category, brand, ok) ==
    IF ~ok THEN {}
    ELSE { [tutorial_id |-> t.tutorial_id,
            score |-> LET intersection == Cardinality(t.keywords \cap keywords)
                          union == Cardinality(t.keywords \cup keywords)
                      IN  IF union > 0 THEN Rat(intersection, union) ELSE Zero] :
           t \in {u \in tutorials : /\ brand = NoBrand \/ u.brand = brand
                                    /\ keywords = {} \/ u.keywords \cap keywords # {}} }

IdsOf(results) == {r.tutorial_id : r \in results}

\* the score a stage gave a tutorial, 0.0 when the stage did not return it
ScoreIn(results, tid) ==
    IF tid \in IdsOf(results)
    THEN (CHOOSE r \in results : r.tutorial_id = tid).score
    ELSE Zero

\* all_ids keeping only the tutorials both stages returned
all_ids_Intersection(vector_results, keyword_results) ==
    IdsOf(vector_results) \cap IdsOf(keyword_results)

\* all_ids of _hybrid_scoring
all_ids(vector_results, keyword_results) ==
    IdsOf(vector_results) \cup IdsOf(keyword_results)

\* iteration order of a set of small ints: by slot of the hash table
RECURSIVE SetOrder(_, _)
SetOrder(ids, slots) ==
    IF ids = {} THEN <<>>
    ELSE LET x == CHOOSE i \in ids : \A j \in ids : i % slots <= j % slots
         IN  <<x>> \o SetOrder(ids \ {x}, slots)

\* for tid in all_ids: the union is built in a table of 8 slots while the two
\* key sets hold at most 4 ids together, in a larger one otherwise
IterAllIds(vector_results, keyword_results) ==
    SetOrder(all_ids(vector_results, keyword_results),
             IF Cardinality(vector_results) + Cardinality(keyword_results) <= 4
             THEN 8 ELSE 16)

\* list.sort(key=lambda x: x[key], reverse=True): stable, descending
RECURSIVE InsertByDesc(_, _, _)
InsertByDesc(s, e, key) ==
    IF s = <<>> THEN <<e>>
    ELSE IF RLt(Head(s)[key], e[key]) THEN <<e>> \o s
    ELSE <<Head(s)>> \o InsertByDesc(Tail(s), e, key)

RECURSIVE SortByDesc(_, _)
SortByDesc(s, key) ==
    IF s = <<>> THEN <<>>
    ELSE InsertByDesc(SortByDesc(SubSeq(s, 1, Len(s) - 1), key), s[Len(s)], key)

\* _hybrid_scoring
hybrid_scoring(vector_results, keyword_results) ==
    LET result(tid, vec_score, kw_score) ==
            [tutorial_id |-> tid, vector_score |-> vec_score, keyword_score |-> kw_score,
             hybrid_score |-> RAdd(RMul(beta, vec_score), RMul(RSub(One, beta), kw_score))]
    IN  With(IterAllIds(vector_results, keyword_results), LAMBDA order :
            SortByDesc([i \in 1..Len(order) |->
                           result(order[i], ScoreIn(vector_results, order[i]),
                                  ScoreIn(keyword_results, order[i]))],
                       "hybrid_score"))

\* the user_feedback rows of a tutorial
FeedbackOf(tid, rows) == SelectSeq(rows, LAMBDA r : r.tutorial_id = tid)

\* the number of rows with the outcome set: the sum under
\* AVG(CASE WHEN solved_problem THEN 1.0 ELSE 0.0 END)
RECURSIVE SumResolved(_, _)
SumResolved(rows, i) ==
    IF i > Len(rows) THEN 0
    ELSE (IF rows[i].resolved THEN 1 ELSE 0) + SumResolved(rows, i + 1)

\* the sum of clarity_rating + accuracy_rating over the rows
RECURSIVE SumRatings(_, _)
SumRatings(rows, i) ==
    IF i > Len(rows) THEN 0
    ELSE rows[i].clarity_rating + rows[i].accuracy_rating + SumRatings(rows, i + 1)

\* feedback_score of a tutorial with feedback_count > 0
feedback_score(tid, rows) ==
    LET fb == FeedbackOf(tid, rows)
        feedback_count == Len(fb)
        success_rate == Rat(SumResolved(fb, 1), feedback_count)
        avg == Rat(SumRatings(fb, 1), 10 * feedback_count)
        avg_rating == IF avg = Zero THEN <<1, 2>> ELSE avg
    IN  RDiv(RAdd(success_rate, avg_rating), <<2, 1>>)

\* _feedback_reranking; when the pool gives no connection every result keeps
\* its hybrid score and its place, and feedback_count -1 stands for the absent
\* feedback keys
feedback_reranking(results, rows, ok) ==
    LET scored(r, score, final, count) ==
            [tutorial_id |-> r.tutorial_id, vector_score |-> r.vector_score,
             keyword_score |-> r.keyword_score, hybrid_score |-> r.hybrid_score,
             feedback_score |-> score, final_score |-> final, feedback_count |-> count]
        reranked(r, score, count) ==
            scored(r, score, RMul(r.hybrid_score, RAdd(One, RMul(gamma, score))), count)
        rerank(r, feedback_count) ==
            IF feedback_count > 0
            THEN reranked(r, feedback_score(r.tutorial_id, rows), feedback_count)
            ELSE scored(r, <<1, 2>>, r.hybrid_score, 0)
    IN  IF ok
        THEN SortByDesc([i \in 1..Len(results) |->
                            rerank(results[i], Len(FeedbackOf(results[i].tutorial_id, rows)))],
                        "final_score")
        ELSE [i \in 1..Len(results) |-> scored(results[i], Zero, results[i].hybrid_score, 0 - 1)]

\* which stages of one query work: the vector index (dense), the tutorials
\* table (sparse) and the user_feedback table (feedback)
Stages(d, s, f) == [dense |-> d, sparse |-> s, feedback |-> f]
StagesOk == Stages(TRUE, TRUE, TRUE)
StagesDown == Stages(FALSE, FALSE, TRUE)
StageOutcomes ==
    { StagesOk, Stages(FALSE, TRUE, TRUE), Stages(TRUE, FALSE, TRUE), StagesDown,
      Stages(TRUE, TRUE, FALSE) }

\* final_results[:limit]
Truncate(final_results, limit) ==
    SubSeq(final_results, 1, IF Len(final_results) < limit THEN Len(final_results) ELSE limit)

\* search_tutorials_hybrid
search_tutorials_hybrid(diagnosis, keywords, category, brand, limit, rows, stages) ==
    LET vector_results == vector_search(diagnosis, category, brand, stages.dense)
        keyword_results == keyword_search(keywords, category, brand, stages.sparse)
        hybrid_results == hybrid_scoring(vector_results, keyword_results)
        final_results == feedback_reranking(hybrid_results, rows, stages.feedback)
    IN  Truncate(final_results, limit)

\* --------------------------------------------------------------------------
\* Session orchestration: /api/v2/diagnose/start, /answer and /api/v2/feedback
\* for one session id
\* --------------------------------------------------------------------------
\* bounds of the exploration
MaxRequests == 2
MaxDbFailures == 1

VARIABLES
    learned_patterns,    \* approved rows of the learned_patterns table
    learned_questions,   \* approved rows of the learned_questions table
    active,              \* session_id in active_sessions
    processed_input,     \* session["processed_input"]
    initial_belief,      \* session["initial_belief"]
    current_belief,      \* session["current_belief"]
    aliased,             \* both keys refer to the same dict object
    asked_questions,     \* session["asked_questions"]
    confidence_history,  \* session["confidence_history"], <<>> while the key is absent
    diagnosis,           \* session["diagnosis"], "none" while the key is absent
    belief_snapshots,    \* rows of belief_snapshots of the session
    diagnostic_logs,     \* rows of diagnostic_logs of the session
    user_feedback,       \* rows of user_feedback of the session
    response,            \* the response of the last request
    state,               \* the last diagnosis_state the session was reported in
    terminated,          \* the session has been reported complete or uncertain
    last,                \* the last request and what the engine did for it
    requests,            \* number of requests made on the session
    db_failures,         \* number of requests hit by a failing backend so far
    retrieval,           \* the search_tutorials_hybrid call of the last request
    in_flight            \* answer requests suspended at the await of pool.acquire()

vars ==
    <<learned_patterns, learned_questions, active, processed_input, initial_belief,
      current_belief, aliased, asked_questions, confidence_history, diagnosis,
      belief_snapshots, diagnostic_logs, user_feedback, response, state, terminated,
      last, requests, db_failures, retrieval, in_flight>>

NoInput == [symptoms |-> {}, visual_symptoms |-> {}, category |-> "Laptop",
            brand_confidence |-> <<0, 1>>, image |-> FALSE, brand |-> NoBrand,
            keywords |-> {}]

\* what processor.process_input can hand to the engine
In(s, v, c, bn, bd, b, k) ==
    [symptoms |-> s, visual_symptoms |-> v, category |-> c,
     brand_confidence |-> <<bn, bd>>, image |-> v # {}, brand |-> b, keywords |-> k]

StartInputs ==
    { In({}, {}, "Laptop", 0, 1, NoBrand, {}),
      In({"no_power", "led_off"}, {}, "Laptop", 0, 1, NoBrand,
         {"battery", "charger", "dead"}),
      In({"no_power"}, {"led_off"}, "Laptop", 19, 20, "dell",
         {"battery", "charger", "dead"}),
      In({"overheating"}, {}, "Laptop", 0, 1, NoBrand, {"fan"}),
      In({"no_power", "led_off", "no_charge"}, {}, "Laptop", 0, 1, NoBrand,
         {"battery", "charger", "dead"}),
      In({"no_power"}, {}, "Phone", 0, 1, NoBrand, {"battery"}),
      In({"led_off"}, {}, "Phone", 0, 1, NoBrand, {}) }

\* action is logs[0]["action"] of the response
NoResponse == [code |-> 0, diagnosis_state |-> "none", next_question |-> NoQuestion,
               limit |-> 0, action |-> "none"]
Resp(st, q, lim, act) == [code |-> 200, diagnosis_state |-> st, next_question |-> q,
                          limit |-> lim, action |-> act]
Error500 == [code |-> 500, diagnosis_state |-> "none", next_question |-> NoQuestion,
             limit |-> 0, action |-> "none"]

NoRetrieval == [called |-> FALSE, diagnosis |-> "none", category |-> "none",
                brand |-> NoBrand, keywords |-> {}, limit |-> 0, stages |-> StagesOk,
                tutorials |-> <<>>]

\* the stage outcomes explored for the query of a session request: both
\* backends up or both down; SearchSpec explores a single failing stage
SessionStageOutcomes == {StagesOk, StagesDown}

\* matcher.search_tutorials_hybrid as the two handlers call it; the response
\* carries the tutorials it returns
Retrieve(top_cause, input, limit, rows, stages) ==
    [called |-> TRUE, diagnosis |-> top_cause, category |-> input.category,
     brand |-> input.brand, keywords |-> input.keywords, limit |-> limit,
     stages |-> stages,
     tutorials |-> search_tutorials_hybrid(top_cause, input.keywords, input.category,
                                           input.brand, limit, rows, stages)]

NoLast == [op |-> "none", question_id |-> NoQuestion, answer |-> "", path |-> "none",
           before |-> <<>>, result |-> <<>>, raised |-> FALSE, db_ok |-> TRUE]

Init ==
    /\ learned_patterns \in {{}, LearnedPatternPool}
    /\ learned_questions = LearnedQuestionPool
    /\ active = FALSE
    /\ processed_input = NoInput
    /\ initial_belief = <<>>
    /\ current_belief = <<>>
    /\ aliased = FALSE
    /\ asked_questions = <<>>
    /\ confidence_history = <<>>
    /\ diagnosis = "none"
    /\ belief_snapshots = <<>>
    /\ diagnostic_logs = <<>>
    /\ user_feedback = <<>>
    /\ response = NoResponse
    /\ state = "INIT"
    /\ terminated = FALSE
    /\ last = NoLast
    /\ requests = 0
    /\ db_failures = 0
    /\ retrieval = NoRetrieval
    /\ in_flight = <<>>

\* a confidence threshold of 0.9
Threshold_High == <<9, 10>>

Threshold == <<3, 4>>

\* the first question of start_enhanced_diagnosis and the next question of
\* answer_diagnostic_question: the text question first, else the binary one
NextQuestion(beliefs, input, asked) ==
    LET text_question == generate_text_question(beliefs, asked)
    IN  IF text_question # NoQuestion THEN text_question
        ELSE select_next_question(beliefs, input, asked, input.category, learned_questions)

\* the diagnosis_state value and the state it names
StateOf(st) ==
    CASE st = "complete" -> "COMPLETE"
      [] st = "uncertain" -> "UNCERTAIN"
      [] OTHER -> "QUESTIONING"

\* start_enhanced_diagnosis
StartSession(input, db_ok) ==
    /\ ~active
    /\ db_ok \/ db_failures < MaxDbFailures
    /\ IF ~db_ok
       THEN /\ response' = Error500
            /\ db_failures' = db_failures + 1
            /\ retrieval' = NoRetrieval
            /\ last' = [NoLast EXCEPT !.op = "start", !.db_ok = FALSE]
            /\ UNCHANGED <<in_flight, learned_patterns, learned_questions, active, processed_input,
                           initial_belief, current_belief, aliased, asked_questions,
                           confidence_history, diagnosis, belief_snapshots,
                           diagnostic_logs, user_feedback, state, terminated, requests>>
       ELSE With(initialize_beliefs(input.symptoms, input.visual_symptoms,
                                    input.category, learned_patterns), LAMBDA belief :
            With(get_confidence(belief), LAMBDA max_confidence :
            With(NextQuestion(belief, input, <<>>), LAMBDA next_question :
            With(get_diagnosis(belief), LAMBDA top_cause :
                LET st == IF RLe(Threshold, max_confidence) THEN "complete"
                          ELSE IF next_question = NoQuestion THEN "uncertain"
                          ELSE "questioning"
                IN  /\ active' = TRUE
                    /\ processed_input' = input
                    /\ initial_belief' = belief
                    /\ current_belief' = belief
                    /\ aliased' = TRUE
                    /\ asked_questions' = <<>>
                    /\ belief_snapshots' = <<[snapshot_order |-> 0, belief_vector |-> belief]>>
                    /\ diagnostic_logs' =
                           <<[log_order |-> 1, action |-> "text_processed"]>> \o
                           (IF input.image
                            THEN <<[log_order |-> 2, action |-> "image_analyzed"]>>
                            ELSE <<>>)
                    /\ confidence_history' =
                           IF st = "questioning" THEN <<max_confidence>> ELSE <<>>
                    /\ diagnosis' = IF st = "questioning" THEN "none" ELSE top_cause
                    /\ response' = Resp(st,
                                        IF st = "questioning" THEN next_question ELSE NoQuestion,
                                        IF st = "questioning" THEN 0 ELSE 5,
                                        CASE st = "complete" -> "high_confidence_match"
                                          [] st = "uncertain" -> "no_questions_available"
                                          [] OTHER -> "first_question_selected")
                    /\ IF st = "questioning"
                       THEN retrieval' = NoRetrieval /\ UNCHANGED db_failures
                       ELSE \E stages \in SessionStageOutcomes :
                                /\ stages = StagesOk \/ db_failures < MaxDbFailures
                                /\ retrieval' = Retrieve(top_cause, input, 5,
                                                         user_feedback, stages)
                                /\ db_failures' = IF stages = StagesOk THEN db_failures
                                                  ELSE db_failures + 1
                    /\ state' = StateOf(st)
                    /\ terminated' = (st # "questioning")
                    /\ last' = [NoLast EXCEPT !.op = "start", !.result = belief]
                    /\ UNCHANGED <<in_flight, learned_patterns, learned_questions, user_feedback,
                                   requests>>))))

\* the requests a client sends to /answer: (question_id, answer, response_type)
AnswerRequests ==
    { <<"battery_led", "yes", "binary">>, <<"battery_led", "no", "binary">>,
      <<"battery_led", "maybe", "text">>, <<"q_fan_spin", "yes", "binary">>,
      <<"lq_adapter", "yes", "binary">>, <<"q_unknown", "yes", "binary">>,
      <<"text_general_1", TextPlain, "text">>, <<"q_unknown", Bypass, "binary">> }
    \cup {<<q, TextDead, "text">> : q \in {response.next_question} \ {NoQuestion}}

\* any(keyword in answer.lower() for keyword in bypass_keywords)
IsBypass(answer) == answer = Bypass

\* the inserts of a request autocommit one by one: "fail_log" is a database
\* error raised after the belief_snapshots insert has been committed
DbOutcomes == {"ok", "fail_log"}

StagnationStep == <<1, 20>>

\* Stagnating comparing the last confidence with the one before it only
Stagnating_LastTwo(history) ==
    /\ Len(history) >= 3
    /\ RLt(RSub(history[Len(history)], history[Len(history) - 1]), StagnationStep)

\* confidence_stagnating of answer_diagnostic_question
Stagnating(history) ==
    /\ Len(history) >= 3
    /\ RLt(RSub(history[Len(history)], history[Len(history) - 2]), StagnationStep)

\* answer_diagnostic_question
AnswerQuestion(question_id, answer, response_type) ==
    /\ active
    /\ requests' = requests + 1
    /\ UNCHANGED <<in_flight, learned_patterns, learned_questions, active, processed_input, user_feedback>>
    /\ IF IsBypass(answer)
       THEN /\ retrieval' = NoRetrieval
            /\ response' = IF current_belief = <<>> THEN Error500
                           ELSE Resp("tutorials", NoQuestion, 0, "user_requested_tutorials")
            /\ last' = [NoLast EXCEPT !.op = "answer", !.question_id = question_id,
                                      !.answer = answer, !.path = "bypass",
                                      !.before = current_belief, !.result = current_belief,
                                      !.raised = (current_belief = <<>>)]
            /\ UNCHANGED <<initial_belief, current_belief, aliased, asked_questions,
                           confidence_history, diagnosis, belief_snapshots, diagnostic_logs,
                           state, terminated, db_failures>>
       ELSE With(IF response_type = "text" /\ answer \in LongAnswers
                 THEN update_beliefs_semantic(current_belief, answer)
                 ELSE update_beliefs(current_belief, question_id, answer, learned_questions),
                 LAMBDA upd :
            With(get_confidence(upd.ret), LAMBDA current_max_confidence :
            With(NextQuestion(upd.ret, processed_input, Append(asked_questions, question_id)),
                 LAMBDA next_question :
            With(get_diagnosis(upd.ret), LAMBDA top_cause :
                LET updated_belief == upd.ret
                    asked == Append(asked_questions, question_id)
                    history == Append(confidence_history, current_max_confidence)
                    escape == Stagnating(history) /\ Len(asked) >= 2
                    st == IF escape THEN "uncertain"
                          ELSE IF RLe(Threshold, current_max_confidence) THEN "complete"
                          ELSE IF next_question = NoQuestion THEN "uncertain"
                          ELSE "questioning"
                    limit == IF escape THEN 8 ELSE IF st = "questioning" THEN 0 ELSE 5
                    action == IF escape THEN "confidence_stagnating_escape"
                              ELSE CASE st = "complete" -> "confidence_threshold_reached"
                                     [] st = "uncertain" -> "no_more_questions"
                                     [] OTHER -> "next_question_selected"
                    snapshot == [snapshot_order |-> Len(asked), belief_vector |-> updated_belief]
                    log == [log_order |-> Len(asked) + 2, action |-> "answer_received"]
                    call == [op |-> "answer", question_id |-> question_id, answer |-> answer,
                             path |-> IF response_type = "text" /\ answer \in LongAnswers
                                      THEN "semantic" ELSE "rule",
                             before |-> current_belief, result |-> updated_belief,
                             raised |-> upd.raised, db_ok |-> TRUE]
                IN  /\ initial_belief' = IF aliased THEN upd.arg ELSE initial_belief
                    /\ IF upd.raised
                       THEN /\ last' = call
                            /\ retrieval' = NoRetrieval
                            /\ current_belief' = upd.arg
                            /\ response' = Error500
                            /\ UNCHANGED <<aliased, asked_questions, confidence_history,
                                           diagnosis, belief_snapshots, diagnostic_logs, state,
                                           terminated, db_failures>>
                       ELSE /\ current_belief' = updated_belief
                            /\ aliased' = (aliased /\ upd.same)
                            /\ asked_questions' = asked
                            /\ confidence_history' = history
                            /\ \E db \in DbOutcomes :
                                 /\ db = "ok" \/ db_failures < MaxDbFailures
                                 /\ last' = [call EXCEPT !.db_ok = (db = "ok")]
                                 /\ belief_snapshots' = Append(belief_snapshots, snapshot)
                                 /\ IF db = "ok"
                                    THEN /\ diagnostic_logs' = Append(diagnostic_logs, log)
                                         /\ diagnosis' = IF escape \/ st = "complete"
                                                         THEN top_cause ELSE diagnosis
                                         /\ response' =
                                                Resp(st, IF st = "questioning" THEN next_question
                                                         ELSE NoQuestion, limit, action)
                                         /\ IF st = "questioning"
                                            THEN retrieval' = NoRetrieval /\ UNCHANGED db_failures
                                            ELSE \E stages \in SessionStageOutcomes :
                                                     /\ \/ stages = StagesOk
                                                        \/ db_failures < MaxDbFailures
                                                     /\ retrieval' =
                                                            Retrieve(top_cause, processed_input,
                                                                     limit, user_feedback, stages)
                                                     /\ db_failures' =
                                                            IF stages = StagesOk THEN db_failures
                                                            ELSE db_failures + 1
                                         /\ state' = StateOf(st)
                                         /\ terminated' = (terminated \/ st # "questioning")
                                    ELSE /\ retrieval' = NoRetrieval
                                         /\ response' = Error500
                                         /\ db_failures' = db_failures + 1
                                         /\ UNCHANGED <<diagnostic_logs, diagnosis, state,
                                                        terminated>>))))

MaxFeedback == 1

\* INSERT INTO user_feedback: the table takes a Feedback record as it is
\* given, its outcome column being the one the re-ranking aggregates
InsertFeedback(rows, row) == Append(rows, row)

\* submit_feedback
SubmitFeedback(tutorial_id, resolved, clarity_rating, accuracy_rating) ==
    /\ active
    /\ Len(user_feedback) < MaxFeedback
    /\ requests' = requests + 1
    /\ user_feedback' = InsertFeedback(user_feedback,
                               [tutorial_id |-> tutorial_id, resolved |-> resolved,
                                clarity_rating |-> clarity_rating,
                                accuracy_rating |-> accuracy_rating,
                                final_diagnosis |-> IF diagnosis = "none" THEN "unknown"
                                                    ELSE diagnosis])
    /\ response' = [NoResponse EXCEPT !.code = 200]
    /\ last' = [NoLast EXCEPT !.op = "feedback"]
    /\ retrieval' = NoRetrieval
    /\ UNCHANGED <<in_flight, learned_patterns, learned_questions, active, processed_input,
                   initial_belief, current_belief, aliased, asked_questions,
                   confidence_history, diagnosis, belief_snapshots, diagnostic_logs,
                   state, terminated, db_failures>>

\* the feedback a client sends: (tutorial_id, resolved, clarity_rating, accuracy_rating)
FeedbackRequests ==
    { <<7, TRUE, 5, 4>>, <<7, FALSE, 1, 1>>, <<3, TRUE, 10, 10>> }

Next ==
    \/ \E input \in StartInputs, db_ok \in BOOLEAN : StartSession(input, db_ok)
    \/ /\ requests < MaxRequests
       /\ \E r \in AnswerRequests : AnswerQuestion(r[1], r[2], r[3])
    \/ /\ requests < MaxRequests
       /\ \E f \in FeedbackRequests : SubmitFeedback(f[1], f[2], f[3], f[4])

Spec == Init /\ [][Next]_vars

\* --------------------------------------------------------------------------
\* The retrieval pipeline on its own: queries against snapshots of the
\* user_feedback table, with every outcome of the three stages
\* --------------------------------------------------------------------------
Fb(tid, r, c, a) ==
    [tutorial_id |-> tid, resolved |-> r, clarity_rating |-> c, accuracy_rating |-> a,
     final_diagnosis |-> "unknown"]

\* snapshots of user_feedback holding rows SubmitFeedback stores
FeedbackSnapshots ==
    { <<>>, <<Fb(7, TRUE, 5, 4)>>, <<Fb(7, FALSE, 1, 1)>>, <<Fb(3, TRUE, 10, 10)>>,
      <<Fb(7, TRUE, 5, 4), Fb(7, FALSE, 1, 1)>>, <<Fb(12, TRUE, 5, 5), Fb(3, FALSE, 2, 3)>> }

SearchDiagnoses == {"power_supply", "battery", "unknown"}

SearchLimits == {2, 5, 8}

\* one call of search_tutorials_hybrid
Search(top_cause, input, limit, rows, stages) ==
    /\ ~retrieval.called
    /\ user_feedback' = rows
    /\ retrieval' = Retrieve(top_cause, input, limit, rows, stages)
    /\ UNCHANGED <<in_flight, learned_patterns, learned_questions, active, processed_input,
                   initial_belief, current_belief, aliased, asked_questions,
                   confidence_history, diagnosis, belief_snapshots, diagnostic_logs,
                   response, state, terminated, last, requests, db_failures>>

SearchNext ==
    \E d \in SearchDiagnoses, input \in StartInputs, limit \in SearchLimits,
       rows \in FeedbackSnapshots, stages \in StageOutcomes :
        Search(d, input, limit, rows, stages)

SearchSpec == Init /\ [][SearchNext]_vars

\* --------------------------------------------------------------------------
\* A longer session: a client that goes on answering while the session is
\* questioning, with the database up at the start
\* --------------------------------------------------------------------------
MaxLongRequests == 3

LongNext ==
    \/ \E input \in StartInputs : StartSession(input, TRUE)
    \/ /\ requests < MaxLongRequests
       /\ ~terminated
       /\ \E r \in AnswerRequests : AnswerQuestion(r[1], r[2], r[3])

LongSpec == Init /\ [][LongNext]_vars

\* --------------------------------------------------------------------------
\* Properties
\* --------------------------------------------------------------------------
\* the last request was an /answer request that ran update_beliefs to its return
RuleUpdateReturned ==
    last.op = "answer" /\ last.path = "rule" /\ ~last.raised

\* the last request was an /answer request answered with status 200 after a
\* belief update
Answered ==
    last.op = "answer" /\ last.path # "bypass" /\ response.code = 200

Prob(b, c) == Get(b, c, Zero)

NonIncreasing(b) ==
    \A i \in 1..Len(b) : \A j \in i..Len(b) : RLe(b[j].p, b[i].p)

C2_ThresholdCompletes ==
    Answered /\ RLe(<<3, 4>>, get_confidence(current_belief))
        => response.diagnosis_state = "complete"

\* C3: after an answer, if at least 2 questions have been asked and the last
\* of the 3 most recent confidence values exceeds the first of them by less
\* than 0.05, the session is UNCERTAIN, also with confidence below 0.75
C3_StagnationEscape ==
    LET n == Len(confidence_history)
    IN  (/\ Answered
         /\ Len(asked_questions) >= 2
         /\ n >= 3
         /\ RLt(RSub(confidence_history[n], confidence_history[n - 2]), <<5, 100>>))
            => response.diagnosis_state = "uncertain" /\ state = "UNCERTAIN"

C3_Witness ==
    /\ Answered
    /\ Len(asked_questions) >= 2
    /\ Len(confidence_history) >= 3
    /\ RLt(get_confidence(current_belief), <<3, 4>>)
    /\ RLt(confidence_history[1], confidence_history[3])
    /\ response.diagnosis_state = "uncertain"

\* C4: once a session has been reported COMPLETE or UNCERTAIN, a later
\* /answer request leaves its belief vector, asked questions, confidence
\* history and belief snapshots unchanged
C4_TerminalIsFrozen ==
    [][terminated /\ last'.op = "answer"
          => /\ current_belief' = current_belief
             /\ asked_questions' = asked_questions
             /\ confidence_history' = confidence_history
             /\ belief_snapshots' = belief_snapshots]_vars

\* C5: an /answer request that fails (exception in the update, or database
\* error after it) leaves the belief vector as it was before the request and
\* does not record the question as asked
C5_FailedUpdateRolledBack ==
    [][last'.op = "answer" /\ last'.path # "bypass" /\ response'.code = 500
          => /\ current_belief' = current_belief
             /\ asked_questions' = asked_questions]_vars

KnownQuestionIds ==
    BaseQuestionIds \cup {lq.question_id : lq \in learned_questions}

AnswersOf(question_id) ==
    IF question_id \in BaseQuestionIds
    THEN DOMAIN base_questions[question_id].belief_updates
    ELSE UNION {DOMAIN lq.belief_updates_json :
                    lq \in {x \in learned_questions : x.question_id = question_id}}

\* C6: update_beliefs with a question id that is neither a base nor an
\* approved learned question, or with an answer that has no belief_updates
\* entry, returns its input: same causes, same probabilities, same order
C6_NoOpUpdate ==
    (/\ last.op = "answer"
     /\ last.path = "rule"
     /\ \/ last.question_id \notin KnownQuestionIds
        \/ last.answer \notin AnswersOf(last.question_id))
        => ~last.raised /\ last.result = last.before

C6_Witness ==
    /\ last.op = "answer"
    /\ last.path = "rule"
    /\ last.question_id \in KnownQuestionIds
    /\ last.answer \notin AnswersOf(last.question_id)
    /\ Len(last.before) >= 2
    /\ last.result = last.before
    /\ requests = 2
    /\ asked_questions[1] \notin KnownQuestionIds

\* C7: update_beliefs never adds or removes a cause; a cause named in the
\* answer's belief_updates but absent from the input stays absent
C7_SameCauses ==
    RuleUpdateReturned
        => Keys(last.result) = Keys(last.before) /\ Len(last.result) = Len(last.before)

C7_Witness ==
    /\ RuleUpdateReturned
    /\ last.question_id = "q_fan_spin"
    /\ last.answer = "yes"
    /\ last.before # <<>>
    /\ last.result # last.before
    /\ "motherboard_dead" \notin Keys(last.result)

\* the multiplier the looked-up belief_updates entry holds for a cause, 1 for
\* a cause it does not name
FactorOf(updates, c) ==
    IF \E i \in 1..Len(updates) : updates[i].cause = c
    THEN (updates[CHOOSE i \in 1..Len(updates) : updates[i].cause = c]).f
    ELSE One

RECURSIVE WeightedSum(_, _, _)
WeightedSum(b, updates, i) ==
    IF i > Len(b) THEN Zero
    ELSE RAdd(RMul(b[i].p, FactorOf(updates, b[i].cause)), WeightedSum(b, updates, i + 1))

LastUpdates ==
    IF last.question_id \in BaseQuestionIds
    THEN base_questions[last.question_id].belief_updates[last.answer]
    ELSE (CHOOSE lq \in learned_questions :
              lq.question_id = last.question_id).belief_updates_json[last.answer]

KnownUpdateReturned ==
    /\ RuleUpdateReturned
    /\ last.question_id \in KnownQuestionIds
    /\ last.answer \in AnswersOf(last.question_id)

\* C8: for a known question and answer update_beliefs returns, for each cause
\* c of the input, current[c] * factor(c) divided by the sum of these products
\* (stated as result[c] * sum = current[c] * factor(c)), listed in
\* non-increasing order; {battery: 0.5, power_supply: 0.5} with battery_led
\* answered "no" gives {power_supply: 0.75, battery: 0.25}
C8_UpdateFormula ==
    KnownUpdateReturned
        => /\ \A i \in 1..Len(last.before) :
                  RMul(Prob(last.result, last.before[i].cause),
                       WeightedSum(last.before, LastUpdates, 1))
                      = RMul(last.before[i].p, FactorOf(LastUpdates, last.before[i].cause))
           /\ NonIncreasing(last.result)
           /\ (/\ last.before = <<E("battery", 1, 2), E("power_supply", 1, 2)>>
               /\ last.question_id = "battery_led"
               /\ last.answer = "no")
                  => last.result = <<E("power_supply", 3, 4), E("battery", 1, 4)>>

C8_Witness ==
    /\ KnownUpdateReturned
    /\ last.before = <<E("battery", 1, 2), E("power_supply", 1, 2)>>
    /\ last.question_id = "battery_led"
    /\ last.answer = "no"
    /\ last.result = <<E("power_supply", 3, 4), E("battery", 1, 4)>>

\* the static patterns of the category that share a symptom with the input
Overlapping(input) ==
    {i \in 1..Len(base_patterns) :
        /\ base_patterns[i].category = input.category
        /\ base_patterns[i].symptoms \cap (input.symptoms \cup input.visual_symptoms) # {}}

LearnedOverlapping(input) ==
    {lp \in learned_patterns :
        /\ lp.category = input.category
        /\ lp.symptom_combination \cap (input.symptoms \cup input.visual_symptoms) # {}}

\* cause_prob * overlap * pattern.confidence of pattern i for cause c
Evidence(i, c, input) ==
    LET pattern == base_patterns[i]
        all == input.symptoms \cup input.visual_symptoms
    IN  IF i \in Overlapping(input)
        THEN RMul(Prob(pattern.causes, c),
                  RMul(Rat(Cardinality(pattern.symptoms \cap all), Cardinality(pattern.symptoms)),
                       pattern.confidence))
        ELSE Zero

RECURSIVE EvidenceSum(_, _, _)
EvidenceSum(i, c, input) ==
    IF i > Len(base_patterns) THEN Zero
    ELSE RAdd(Evidence(i, c, input), EvidenceSum(i + 1, c, input))

StaticCauses(input) ==
    UNION {Keys(base_patterns[i].causes) : i \in Overlapping(input)}

RECURSIVE EvidenceTotal(_, _)
EvidenceTotal(causes, input) ==
    IF causes = {} THEN Zero
    ELSE LET c == CHOOSE x \in causes : TRUE
         IN  RAdd(EvidenceSum(1, c, input), EvidenceTotal(causes \ {c}, input))

\* C9: when only static patterns of the category overlap the observed
\* symptoms (text and visual together), initialize_beliefs returns each cause
\* with probability proportional to the sum over the overlapping patterns of
\* cause_prob * overlap * confidence; one fully matched pattern
\* {power_supply: 0.8, battery: 0.2} yields exactly that vector; no
\* overlapping pattern yields the empty vector
C9_InitialBeliefs ==
    (last.op = "start" /\ response.code = 200)
        => /\ LearnedOverlapping(processed_input) = {}
              => /\ Keys(last.result) = StaticCauses(processed_input)
                 /\ \A c \in StaticCauses(processed_input) :
                        RMul(Prob(last.result, c),
                             EvidenceTotal(StaticCauses(processed_input), processed_input))
                            = EvidenceSum(1, c, processed_input)
                 /\ Overlapping(processed_input) = {1}
                        /\ processed_input.symptoms \cup processed_input.visual_symptoms
                               = {"no_power", "led_off"}
                        => last.result = <<E("power_supply", 4, 5), E("battery", 1, 5)>>
           /\ (Overlapping(processed_input) = {} /\ LearnedOverlapping(processed_input) = {})
                  => last.result = <<>>

C9_Witness ==
    /\ last.op = "start"
    /\ response.code = 200
    /\ LearnedOverlapping(processed_input) = {}
    /\ Overlapping(processed_input) = {1, 2}
    /\ processed_input.visual_symptoms = {}
    /\ last.result = <<E("power_supply", 8, 11), E("battery", 3, 11)>>

\* C10: a start whose initial belief vector has confidence at least 0.75 goes
\* directly to COMPLETE, with a tutorial list, no question and nothing asked;
\* with confidence below 0.75 it does not return COMPLETE
C10_StartCompletes ==
    (last.op = "start" /\ response.code = 200)
        => /\ RLe(<<3, 4>>, get_confidence(last.result))
                  <=> response.diagnosis_state = "complete"
           /\ response.diagnosis_state = "complete"
                  => /\ state = "COMPLETE"
                     /\ response.next_question = NoQuestion
                     /\ response.limit > 0
                     /\ asked_questions = <<>>

C10_Witness ==
    /\ last.op = "start"
    /\ response.diagnosis_state = "complete"
    /\ get_confidence(last.result) = <<4, 5>>
    /\ response.limit = 5
    /\ asked_questions = <<>>

\* the last request ran a handler to its 200 response outside the bypass
Handled ==
    last.op \in {"start", "answer"} /\ last.path # "bypass" /\ response.code = 200

\* no question is left for the session: what the handler's question selection
\* returns for the belief vector and the asked questions of the session
NoQuestionLeft ==
    NextQuestion(current_belief, processed_input, asked_questions) = NoQuestion

\* C11: when no further question is available (and the stagnation escape has
\* not fired), the session ends COMPLETE if its confidence is at least 0.5;
\* it ends UNCERTAIN for lack of questions only with confidence below 0.5
C11_NoQuestionOutcome ==
    (Handled /\ NoQuestionLeft /\ response.action # "confidence_stagnating_escape")
        => /\ RLe(<<1, 2>>, get_confidence(current_belief))
                  => response.diagnosis_state = "complete" /\ state = "COMPLETE"
           /\ response.diagnosis_state = "uncertain"
                  => RLt(get_confidence(current_belief), <<1, 2>>)

\* C12: every response that reports a session COMPLETE or UNCERTAIN is built
\* after a call of the retrieval engine, with limit 8 when the state is
\* UNCERTAIN and limit 5 when it is COMPLETE
C12_TerminalRetrieval ==
    (Handled /\ response.diagnosis_state \in {"complete", "uncertain"})
        => /\ retrieval.called
           /\ response.diagnosis_state = "uncertain" => retrieval.limit = 8
           /\ response.diagnosis_state = "complete" => retrieval.limit = 5

\* C13: once three questions have been asked, an answer is not followed by
\* another question, also when the confidence is still below 0.75
C13_QuestionBudget ==
    (Answered /\ Len(asked_questions) >= 3)
        => response.diagnosis_state # "questioning" /\ response.next_question = NoQuestion

\* C14: every request that moves the session (a start, an answered question,
\* also when it ends the session COMPLETE or UNCERTAIN) appends exactly one
\* entry to diagnostic_logs, and no step changes or removes an entry already
\* written
C14_AuditTrail ==
    [][/\ Len(diagnostic_logs') >= Len(diagnostic_logs)
       /\ SubSeq(diagnostic_logs', 1, Len(diagnostic_logs)) = diagnostic_logs
       /\ (last'.op \in {"start", "answer"} /\ last'.path # "bypass" /\ response'.code = 200)
              => Len(diagnostic_logs') = Len(diagnostic_logs) + 1]_vars

\* the row of the tutorials table with an id
TutorialRow(tid) == CHOOSE t \in tutorials : t.tutorial_id = tid

\* C15: every tutorial a query returns, from whichever stage it came, belongs
\* to the category passed in the query, with or without a brand
C15_CategoryFilter ==
    retrieval.called
        => \A i \in 1..Len(retrieval.tutorials) :
               TutorialRow(retrieval.tutorials[i].tutorial_id).category = retrieval.category

\* C16: a returned candidate without feedback rows has feedback_score 0.5 and
\* final_score = hybrid_score * (1 + gamma * 0.5); with dense score 0.8 and
\* sparse score 0.4 its hybrid score is 0.64 and its final score 0.736
C16_NeutralFeedback ==
    (retrieval.called /\ retrieval.stages.feedback)
        => \A i \in 1..Len(retrieval.tutorials) :
               LET t == retrieval.tutorials[i]
               IN  FeedbackOf(t.tutorial_id, user_feedback) = <<>>
                       => /\ t.feedback_score = <<1, 2>>
                          /\ t.final_score
                                 = RMul(t.hybrid_score, RAdd(One, RMul(<<3, 10>>, <<1, 2>>)))
                          /\ (t.vector_score = <<4, 5>> /\ t.keyword_score = <<2, 5>>)
                                 => /\ t.hybrid_score = <<16, 25>>
                                    /\ t.final_score = <<92, 125>>

C18_RankOrder ==
    retrieval.called
        => /\ Len(retrieval.tutorials) <= retrieval.limit
           /\ \A i \in 1..Len(retrieval.tutorials) : \A j \in (i + 1)..Len(retrieval.tutorials) :
                  /\ RLe(retrieval.tutorials[j].final_score, retrieval.tutorials[i].final_score)
                  /\ retrieval.tutorials[j].final_score = retrieval.tutorials[i].final_score
                         => retrieval.tutorials[i].tutorial_id < retrieval.tutorials[j].tutorial_id

\* what the stage that works returns for the query of the last call
WorkingStageResults ==
    IF retrieval.stages.dense
    THEN vector_search(retrieval.diagnosis, retrieval.category, retrieval.brand, TRUE)
    ELSE keyword_search(retrieval.keywords, retrieval.category, retrieval.brand, TRUE)

\* C19: when exactly one of the dense and sparse stages fails, the query
\* returns the ranked list built from the results of the other stage: every
\* returned candidate is a result of that stage with that stage's score and
\* score 0 for the failed stage, none is dropped but by the limit, and the
\* list is in non-increasing final_score order
C19_PartialFailure ==
    (retrieval.called /\ retrieval.stages.dense # retrieval.stages.sparse)
        => /\ Len(retrieval.tutorials)
                  = (IF Cardinality(WorkingStageResults) < retrieval.limit
                     THEN Cardinality(WorkingStageResults) ELSE retrieval.limit)
           /\ \A i \in 1..Len(retrieval.tutorials) :
                  LET t == retrieval.tutorials[i]
                  IN  /\ t.tutorial_id \in IdsOf(WorkingStageResults)
                      /\ \A j \in 1..Len(retrieval.tutorials) :
                             retrieval.tutorials[j].tutorial_id = t.tutorial_id => j = i
                      /\ IF retrieval.stages.dense
                         THEN /\ t.keyword_score = Zero
                              /\ t.vector_score = ScoreIn(WorkingStageResults, t.tutorial_id)
                         ELSE /\ t.vector_score = Zero
                              /\ t.keyword_score = ScoreIn(WorkingStageResults, t.tutorial_id)
                      /\ i < Len(retrieval.tutorials)
                             => RLe(retrieval.tutorials[i + 1].final_score, t.final_score)

C19_Witness ==
    /\ retrieval.called
    /\ ~retrieval.stages.dense
    /\ retrieval.stages.sparse
    /\ Len(retrieval.tutorials) >= 2
    /\ retrieval.tutorials[1].vector_score = Zero
    /\ RLt(Zero, retrieval.tutorials[1].keyword_score)
    /\ RLt(retrieval.tutorials[2].final_score, retrieval.tutorials[1].final_score)

\* C20: a request whose query finds both the dense and the sparse stage
\* failing is answered with an error, and leaves the session in the state it
\* was in before the retrieval: not reported COMPLETE or UNCERTAIN, no
\* diagnosis recorded
C20_TotalFailure ==
    [][(retrieval'.called /\ ~retrieval'.stages.dense /\ ~retrieval'.stages.sparse)
          => /\ response'.code # 200
             /\ response'.diagnosis_state \notin {"complete", "uncertain"}
             /\ state' = state
             /\ terminated' = terminated
             /\ diagnosis' = diagnosis]_vars

\* --------------------------------------------------------------------------
\* Question selection on its own: select_next_question called again and
\* again, each returned question appended to the asked list
\* --------------------------------------------------------------------------
MaxSelectCalls == 5

\* the skip reasons the loop over candidate_questions obtains, in loop order
SkipReasons(current_beliefs, input, asked, learned_q) ==
    [i \in 1..Len(Candidates(asked, input.category, learned_q)) |->
        With(Candidates(asked, input.category, learned_q)[i], LAMBDA q :
            [id |-> q, reason |-> should_ask_question(q, current_beliefs, input, asked)])]

\* the inputs the engine is handed: those of the sessions and two of a
\* category whose questions include two of the same estimate
SelectInputs ==
    StartInputs \cup
    { In({"no_power"}, {}, "Tablet", 0, 1, NoBrand, {"battery"}),
      In({"no_power", "no_charge"}, {}, "Tablet", 0, 1, NoBrand, {"battery"}),
      In({"overheating"}, {}, "Tablet", 0, 1, NoBrand, {}) }

\* the engine is handed an input and the belief vector computed for it
SelectStart(input) ==
    /\ ~active
    /\ active' = TRUE
    /\ processed_input' = input
    /\ current_belief' = initialize_beliefs(input.symptoms, input.visual_symptoms,
                                            input.category, learned_patterns)
    /\ asked_questions' = <<>>
    /\ UNCHANGED <<in_flight, learned_patterns, learned_questions, initial_belief, aliased,
                   confidence_history, diagnosis, belief_snapshots, diagnostic_logs,
                   user_feedback, response, state, terminated, last, requests,
                   db_failures, retrieval>>

\* a caller that does not record the returned question as asked
SelectNextCall_NoAppend ==
    /\ active
    /\ requests < MaxSelectCalls
    /\ last' = [NoLast EXCEPT !.op = "select",
                              !.question_id = select_next_question(
                                  current_belief, processed_input, asked_questions,
                                  processed_input.category, learned_questions),
                              !.before = asked_questions]
    /\ requests' = requests + 1
    /\ UNCHANGED <<in_flight, learned_patterns, learned_questions, active, processed_input,
                   initial_belief, current_belief, aliased, asked_questions,
                   confidence_history, diagnosis, belief_snapshots, diagnostic_logs,
                   user_feedback, response, state, terminated, db_failures, retrieval>>

\* one call of select_next_question; the caller appends the returned id
SelectNextCall ==
    /\ active
    /\ requests < MaxSelectCalls
    /\ With(select_next_question(current_belief, processed_input, asked_questions,
                                 processed_input.category, learned_questions),
            LAMBDA q :
                /\ last' = [NoLast EXCEPT !.op = "select", !.question_id = q,
                                          !.before = asked_questions,
                                          !.result = SkipReasons(current_belief, processed_input,
                                                                 asked_questions, learned_questions)]
                /\ asked_questions' = IF q = NoQuestion THEN asked_questions
                                      ELSE Append(asked_questions, q))
    /\ requests' = requests + 1
    /\ UNCHANGED <<in_flight, learned_patterns, learned_questions, active, processed_input,
                   initial_belief, current_belief, aliased, confidence_history, diagnosis,
                   belief_snapshots, diagnostic_logs, user_feedback, response, state,
                   terminated, db_failures, retrieval>>

\* the returned question is answered and update_beliefs applied; a raising
\* update leaves the vector as it was
SelectAnswer(answer) ==
    /\ active
    /\ last.op = "select"
    /\ last.question_id # NoQuestion
    /\ With(update_beliefs(current_belief, last.question_id, answer, learned_questions),
            LAMBDA upd :
                current_belief' = IF upd.raised THEN current_belief ELSE upd.ret)
    /\ last' = [last EXCEPT !.op = "answer", !.answer = answer]
    /\ UNCHANGED <<in_flight, learned_patterns, learned_questions, active, processed_input,
                   initial_belief, aliased, asked_questions, confidence_history, diagnosis,
                   belief_snapshots, diagnostic_logs, user_feedback, response, state,
                   terminated, requests, db_failures, retrieval>>

SelectSpecNext ==
    \/ \E input \in SelectInputs : SelectStart(input)
    \/ SelectNextCall
    \/ \E answer \in {"yes", "no"} : SelectAnswer(answer)

SelectSpec == Init /\ [][SelectSpecNext]_vars

\* the candidate questions of the category of the input at hand: the base
\* questions of the category and its approved learned questions
CategoryCandidates == Candidates(<<>>, processed_input.category, learned_questions)

\* C21: a call of select_next_question whose caller records every returned
\* question as asked never returns a question already in the asked list, and
\* a call made after as many calls as the category has candidate questions
\* returns none
C21_Exhaustion ==
    [][last'.op = "select" /\ requests' = requests + 1
           => /\ last'.question_id # NoQuestion => ~InSeq(last'.question_id, asked_questions)
              /\ requests' > Len(CategoryCandidates) => last'.question_id = NoQuestion]_vars

C21_Witness ==
    /\ last.op = "select"
    /\ last.question_id = NoQuestion
    /\ Len(asked_questions) >= 2
    /\ requests <= Len(CategoryCandidates)

\* what the skip predicates say of an approved learned question, from its row
LearnedPassesPredicates(lq, current_beliefs) ==
    /\ ~RLt(lq.information_gain_avg, <<3, 5>>)
    /\ AffectedCauses([belief_updates |-> lq.belief_updates_json]) \cap TopCauses(current_beliefs) # {}
    /\ ~RLt(<<9, 10>>, get_confidence(current_beliefs))

\* C22: after a call of select_next_question, an approved learned question
\* of the category that was not asked, matches no skip predicate and has an
\* estimate above that of every other surviving candidate is the question
\* returned
C22_LearnedSelected ==
    last.op = "select"
        => \A lq \in learned_questions :
               /\ lq.category = processed_input.category
               /\ ~InSeq(lq.question_id, last.before)
               /\ LearnedPassesPredicates(lq, current_belief)
               /\ \A i \in 1..Len(last.result) :
                      last.result[i].reason = "ask" /\ last.result[i].id # lq.question_id
                          => RLt(GainOf(last.result[i].id, learned_questions),
                                 lq.information_gain_avg)
               => last.question_id = lq.question_id

\* question ids in ascending (string) order
IdOrder ==
    <<"battery_led", "lq_adapter", "q_brand", "q_charge_port", "q_fan_spin",
      "q_screen_crack", "q_speaker">>

IdRank(id) == CHOOSE i \in 1..Len(IdOrder) : IdOrder[i] = id

\* the candidates of the last call that passed every skip predicate
Survivors == {last.result[i].id : i \in {j \in 1..Len(last.result) : last.result[j].reason = "ask"}}

\* C23: a call of select_next_question returns none exactly when no
\* candidate survives the skip predicates; otherwise it returns a survivor
\* with the maximal estimate, the one with the lowest id among those
C23_MaxGainLowestId ==
    last.op = "select"
        => /\ last.question_id = NoQuestion <=> Survivors = {}
           /\ last.question_id # NoQuestion
                  => /\ last.question_id \in Survivors
                     /\ \A q \in Survivors :
                            /\ RLe(GainOf(q, learned_questions),
                                   GainOf(last.question_id, learned_questions))
                            /\ GainOf(q, learned_questions)
                                   = GainOf(last.question_id, learned_questions)
                                   => IdRank(last.question_id) <= IdRank(q)

\* a candidate as the skip predicates see it: a base question, or the row of
\* an approved learned question (which has no skip_if)
QuestionView(q) ==
    IF q \in BaseQuestionIds
    THEN [skip_if |-> base_questions[q].skip_if,
          gain |-> base_questions[q].information_gain_estimate,
          affected |-> AffectedCauses(base_questions[q])]
    ELSE LET lq == CHOOSE r \in learned_questions : r.question_id = q
         IN  [skip_if |-> NoSkip, gain |-> lq.information_gain_avg,
              affected |-> AffectedCauses([belief_updates |-> lq.belief_updates_json])]

Redundancy(q, input) ==
    LET skip == QuestionView(q).skip_if
        detected == input.symptoms \cup input.visual_symptoms
    IN  \/ \E t \in skip.brand_confidence : RLt(t, input.brand_confidence)
        \/ \E req \in skip.symptom_present : req \cap detected # {}
        \/ \E req \in skip.symptom_not_present : req \cap detected = {}
        \/ \E req \in skip.visual_symptoms_detected : req \cap input.visual_symptoms # {}

LowExpectedGain(q) == RLt(QuestionView(q).gain, <<3, 5>>)

Irrelevance(q, beliefs) == QuestionView(q).affected \cap TopCauses(beliefs) = {}

Saturation(beliefs) == RLt(<<9, 10>>, get_confidence(beliefs))

\* the predicates of a candidate that match, as a set of positions 1..4
Matching(q, input, beliefs) ==
    {k \in 1..4 : CASE k = 1 -> Redundancy(q, input)
                    [] k = 2 -> LowExpectedGain(q)
                    [] k = 3 -> Irrelevance(q, beliefs)
                    [] OTHER -> Saturation(beliefs)}

\* the position of the predicate a skip reason belongs to, 0 for any other
ReasonPosition(reason) ==
    CASE reason \in {"Brand already known", "Symptom already detected from input",
                     "Question not relevant to detected symptoms",
                     "Visual analysis already provided this information"} -> 1
      [] reason = "Low information gain" -> 2
      [] reason = "Question doesn't help distinguish top causes" -> 3
      [] reason = "Already have very high confidence" -> 4
      [] OTHER -> 0

Lowest(S) == CHOOSE k \in S : \A j \in S : k <= j

\* C30: for every candidate of a call of select_next_question that matches
\* a skip predicate, the reason obtained for it is that of the first matching
\* predicate in the order redundancy, low expected gain, irrelevance,
\* saturation
C30_FirstMatchingReason ==
    last.op = "select"
        => \A i \in 1..Len(last.result) :
               LET match == Matching(last.result[i].id, processed_input, current_belief)
               IN  match # {} => ReasonPosition(last.result[i].reason) = Lowest(match)

\* --------------------------------------------------------------------------
\* Sessions while the learned tables are written
\* --------------------------------------------------------------------------
\* rows an administrator can store in learned_questions with approved = true: the
\* row of LearnedQuestionPool and the same question with revised multipliers
LearnedQuestionRows ==
    LearnedQuestionPool \cup
    { [question_id |-> "lq_adapter", category |-> "Laptop", information_gain_avg |-> <<9, 10>>,
       belief_updates_json |-> [yes |-> <<M("power_supply", 2, 1)>>]] }

\* the session starts with no learned question approved yet, or with the
\* table of Init
ApproveInit ==
    /\ learned_patterns \in {{}, LearnedPatternPool}
    /\ learned_questions \in {{}, LearnedQuestionPool}
    /\ active = FALSE
    /\ processed_input = NoInput
    /\ initial_belief = <<>>
    /\ current_belief = <<>>
    /\ aliased = FALSE
    /\ asked_questions = <<>>
    /\ confidence_history = <<>>
    /\ diagnosis = "none"
    /\ belief_snapshots = <<>>
    /\ diagnostic_logs = <<>>
    /\ user_feedback = <<>>
    /\ response = NoResponse
    /\ state = "INIT"
    /\ terminated = FALSE
    /\ last = NoLast
    /\ requests = 0
    /\ db_failures = 0
    /\ retrieval = NoRetrieval
    /\ in_flight = <<>>

\* approve_pattern: the candidate becomes a row of learned_patterns
approve_pattern(row) ==
    /\ row \notin learned_patterns
    /\ learned_patterns' = learned_patterns \cup {row}
    /\ UNCHANGED <<in_flight, learned_questions, active, processed_input, initial_belief,
                   current_belief, aliased, asked_questions, confidence_history, diagnosis,
                   belief_snapshots, diagnostic_logs, user_feedback, response, state,
                   terminated, last, requests, db_failures, retrieval>>

\* a learned question is approved (its row appears with approved = true), or
\* the row of an approved question is replaced by a revised one
WriteLearnedQuestion(row) ==
    /\ row \notin learned_questions
    /\ learned_questions' =
           {lq \in learned_questions : lq.question_id # row.question_id} \cup {row}
    /\ UNCHANGED <<in_flight, learned_patterns, active, processed_input, initial_belief,
                   current_belief, aliased, asked_questions, confidence_history, diagnosis,
                   belief_snapshots, diagnostic_logs, user_feedback, response, state,
                   terminated, last, requests, db_failures, retrieval>>

ApproveNext ==
    \/ \E input \in StartInputs : StartSession(input, TRUE)
    \/ /\ requests < MaxRequests
       /\ \E r \in AnswerRequests : AnswerQuestion(r[1], r[2], r[3])
    \/ \E row \in LearnedPatternPool : approve_pattern(row)
    \/ \E row \in LearnedQuestionRows : WriteLearnedQuestion(row)

ApproveSpec == ApproveInit /\ [][ApproveNext]_vars

\* the questions a client can name in an answer
AnswerableIds == BaseQuestionIds \cup {lq.question_id : lq \in LearnedQuestionRows}

\* what a caller of update_beliefs observes: the returned vector, or the raise
UpdateResult(beliefs, q, answer, learned_q) ==
    With(update_beliefs(beliefs, q, answer, learned_q), LAMBDA upd :
        <<upd.raised, upd.ret>>)

\* C24: a write to learned_patterns or learned_questions while the session
\* is in QUESTIONING leaves the result of the session's next update_beliefs
\* call (for every question and answer) and of its next select_next_question
\* call as it was before the write
C24_SnapshotAtStart ==
    [][/\ active
       /\ state = "QUESTIONING"
       /\ learned_patterns' # learned_patterns \/ learned_questions' # learned_questions
       => /\ \A q \in AnswerableIds, answer \in {"yes", "no"} :
                 UpdateResult(current_belief, q, answer, learned_questions')
                     = UpdateResult(current_belief, q, answer, learned_questions)
          /\ select_next_question(current_belief, processed_input, asked_questions,
                                  processed_input.category, learned_questions')
                 = select_next_question(current_belief, processed_input, asked_questions,
                                        processed_input.category, learned_questions)]_vars

\* C25: a start request whose input has no symptom creates no session: no
\* entry of the active-session store, no session record and no belief
\* snapshot exists for an input with an empty symptom set
C25_EmptyInputRejected ==
    processed_input.symptoms \cup processed_input.visual_symptoms = {}
        => /\ ~active
           /\ belief_snapshots = <<>>
           /\ response.code # 200

\* the number of whole steps of 0.05 between a confidence and the threshold
\* 0.75 (0 at or above the threshold)
StepsBelowThreshold(c) ==
    IF RLe(<<3, 4>>, c) THEN 0 ELSE (15 * c[2] - 20 * c[1]) \div c[2]

\* the variant of the questioning loop: the steps left for the last two
\* recorded confidence values
QuestioningVariant(history) ==
    StepsBelowThreshold(history[Len(history)]) + StepsBelowThreshold(history[Len(history) - 1])

\* an answer was applied and the session was reported QUESTIONING again
ContinuesQuestioning ==
    /\ last'.op = "answer"
    /\ last'.path # "bypass"
    /\ response'.code = 200
    /\ response'.diagnosis_state = "questioning"
    /\ Len(asked_questions') = Len(asked_questions) + 1

\* C26: from the second answer on, an applied answer keeps the session in
\* QUESTIONING only if the confidence rose by at least 0.05 over the last 3
\* recorded values and is below 0.75; each such answer lowers a variant that
\* is never negative and at most 30, so that no session stays in QUESTIONING
\* for more than a bounded number of answers
C26_BoundedQuestioning ==
    [][ContinuesQuestioning /\ Len(asked_questions') >= 2
           => LET h == confidence_history'
                  n == Len(h)
              IN  /\ n >= 3
                  /\ RLe(StagnationStep, RSub(h[n], h[n - 2]))
                  /\ RLt(h[n], <<3, 4>>)
                  /\ QuestioningVariant(h) < QuestioningVariant(confidence_history)
                  /\ QuestioningVariant(h) >= 0
                  /\ QuestioningVariant(confidence_history) <= 30]_vars

C26_Witness ==
    /\ last.op = "answer"
    /\ last.path # "bypass"
    /\ response.code = 200
    /\ response.diagnosis_state = "questioning"
    /\ Len(asked_questions) >= 3
    /\ Len(confidence_history) = Len(asked_questions) + 1

\* --------------------------------------------------------------------------
\* Sessions of a client that answers the question it was handed
\* --------------------------------------------------------------------------
MaxServedRequests == 3

\* what the client sends for the question of the last response
ServedAnswers ==
    { <<"yes", "binary">>, <<"no", "binary">>, <<TextDead, "text">>, <<TextPlain, "text">> }

\* the question the client holds: that of the last response, still the one
\* it answered when that answer got a 500
ServedQuestion ==
    IF response.code = 200 THEN response.next_question
    ELSE IF last.op = "answer" THEN last.question_id
    ELSE NoQuestion

ServedNext ==
    \/ \E input \in StartInputs : StartSession(input, TRUE)
    \/ /\ requests < MaxServedRequests
       /\ ServedQuestion # NoQuestion
       /\ \E a \in ServedAnswers : AnswerQuestion(ServedQuestion, a[1], a[2])

ServedSpec == Init /\ [][ServedNext]_vars

\* C27: after a start or an applied answer of a client that answers the
\* question it was handed, with confidence below 0.75, the question
\* generator yields a question id that was not asked: the response is never
\* the one for "no questions remain", and a session that goes on is handed
\* that generated question
C27_TextQuestionAvailable ==
    (/\ active
     /\ last.op \in {"start", "answer"}
     /\ response.code = 200
     /\ RLt(get_confidence(current_belief), <<3, 4>>))
        => /\ generate_text_question(current_belief, asked_questions) # NoQuestion
           /\ ~InSeq(generate_text_question(current_belief, asked_questions), asked_questions)
           /\ response.action \notin {"no_more_questions", "no_questions_available"}
           /\ response.diagnosis_state = "questioning"
                  => response.next_question
                         = generate_text_question(current_belief, asked_questions)

C27_Witness ==
    /\ active
    /\ last.op = "answer"
    /\ response.code = 200
    /\ response.diagnosis_state = "questioning"
    /\ Len(asked_questions) >= 2
    /\ RLt(get_confidence(current_belief), <<3, 4>>)
    /\ ~InSeq(response.next_question, asked_questions)

\* C28: the initial belief vector kept in the session equals the vector
\* computed at the start of the session (the one stored as snapshot 0), after
\* any number of answers
C28_InitialBeliefKept ==
    active /\ belief_snapshots # <<>>
        => initial_belief = belief_snapshots[1].belief_vector

\* --------------------------------------------------------------------------
\* Answer requests of one session interleaved at their await points
\* --------------------------------------------------------------------------
MaxInFlight == 2

\* answer_diagnostic_question up to "async with pool.acquire()": the update,
\* the writes to the session dict and the stagnation test run without a
\* suspension; the request then waits for a connection
AnswerApply(question_id, answer, response_type) ==
    /\ active
    /\ ~IsBypass(answer)
    /\ Len(in_flight) < MaxInFlight
    /\ requests' = requests + 1
    /\ With(IF response_type = "text" /\ answer \in LongAnswers
            THEN update_beliefs_semantic(current_belief, answer)
            ELSE update_beliefs(current_belief, question_id, answer, learned_questions),
            LAMBDA upd :
                /\ initial_belief' = IF aliased THEN upd.arg ELSE initial_belief
                /\ last' = [op |-> "answer", question_id |-> question_id, answer |-> answer,
                            path |-> IF response_type = "text" /\ answer \in LongAnswers
                                     THEN "semantic" ELSE "rule",
                            before |-> current_belief, result |-> upd.ret,
                            raised |-> upd.raised, db_ok |-> TRUE]
                /\ IF upd.raised
                   THEN /\ current_belief' = upd.arg
                        /\ response' = Error500
                        /\ UNCHANGED <<aliased, asked_questions, confidence_history, in_flight>>
                   ELSE /\ current_belief' = upd.ret
                        /\ aliased' = (aliased /\ upd.same)
                        /\ asked_questions' = Append(asked_questions, question_id)
                        /\ confidence_history' =
                               Append(confidence_history, get_confidence(upd.ret))
                        /\ in_flight' =
                               Append(in_flight,
                                      [question_id |-> question_id,
                                       updated_belief |-> upd.ret,
                                       confidence_stagnating |->
                                           Stagnating(Append(confidence_history,
                                                             get_confidence(upd.ret)))])
                        /\ UNCHANGED response)
    /\ UNCHANGED <<learned_patterns, learned_questions, active, processed_input, diagnosis,
                   belief_snapshots, diagnostic_logs, user_feedback, state, terminated,
                   db_failures, retrieval>>

\* in_flight without its i-th request
Resumed(i) == SubSeq(in_flight, 1, i - 1) \o SubSeq(in_flight, i + 1, Len(in_flight))

\* answer_diagnostic_question from the acquired connection on: the orders are
\* read from the session dict, the rows are inserted, and the response is
\* built from the request's own updated_belief
AnswerPersist(i) ==
    /\ i \in 1..Len(in_flight)
    /\ With(in_flight[i], LAMBDA req :
       With(NextQuestion(req.updated_belief, processed_input, asked_questions),
            LAMBDA next_question :
            LET snapshot_order == Len(asked_questions)
                log_order == Len(asked_questions) + 2
                max_confidence == get_confidence(req.updated_belief)
                top_cause == get_diagnosis(req.updated_belief)
                escape == req.confidence_stagnating /\ Len(asked_questions) >= 2
                st == IF escape THEN "uncertain"
                      ELSE IF RLe(Threshold, max_confidence) THEN "complete"
                      ELSE IF next_question = NoQuestion THEN "uncertain"
                      ELSE "questioning"
                limit == IF escape THEN 8 ELSE IF st = "questioning" THEN 0 ELSE 5
                action == IF escape THEN "confidence_stagnating_escape"
                          ELSE CASE st = "complete" -> "confidence_threshold_reached"
                                 [] st = "uncertain" -> "no_more_questions"
                                 [] OTHER -> "next_question_selected"
            IN  /\ belief_snapshots' =
                       Append(belief_snapshots,
                              [snapshot_order |-> snapshot_order,
                               belief_vector |-> req.updated_belief,
                               trigger_event |-> req.question_id])
                /\ diagnostic_logs' =
                       Append(diagnostic_logs,
                              [log_order |-> log_order, action |-> "answer_received",
                               question_id |-> req.question_id])
                /\ diagnosis' = IF escape \/ st = "complete" THEN top_cause ELSE diagnosis
                /\ response' = Resp(st, IF st = "questioning" THEN next_question ELSE NoQuestion,
                                    limit, action)
                /\ retrieval' = IF st = "questioning" THEN NoRetrieval
                                ELSE Retrieve(top_cause, processed_input, limit,
                                              user_feedback, StagesOk)
                /\ state' = StateOf(st)
                /\ terminated' = (terminated \/ st # "questioning")
                /\ last' = [last EXCEPT !.op = "persist", !.question_id = req.question_id]))
    /\ in_flight' = Resumed(i)
    /\ UNCHANGED <<learned_patterns, learned_questions, active, processed_input,
                   initial_belief, current_belief, aliased, asked_questions,
                   confidence_history, user_feedback, requests, db_failures>>

ConcurrentNext ==
    \/ \E input \in StartInputs : StartSession(input, TRUE)
    \/ /\ requests < MaxRequests
       /\ \E r \in AnswerRequests : AnswerApply(r[1], r[2], r[3])
    \/ \E i \in 1..MaxInFlight : AnswerPersist(i)

ConcurrentSpec == Init /\ [][ConcurrentNext]_vars

\* the rows the answer requests have inserted
AnswerSnapshots == {belief_snapshots[i] : i \in {j \in 1..Len(belief_snapshots) :
                                                   belief_snapshots[j].snapshot_order # 0}}

AnswerLogs == {diagnostic_logs[i] : i \in {j \in 1..Len(diagnostic_logs) :
                                             diagnostic_logs[j].action = "answer_received"}}

\* C29: the snapshots and log entries that answer requests of one session
\* persist carry pairwise distinct snapshot_order and log_order values, and
\* once no request is in flight there is one of each per answered question,
\* the k-th answer applied to the belief vector holding order k (k + 2 in
\* the log)
C29_DistinctOrders ==
    /\ \A i, j \in 1..Len(belief_snapshots) :
           i # j => belief_snapshots[i].snapshot_order # belief_snapshots[j].snapshot_order
    /\ \A i, j \in 1..Len(diagnostic_logs) :
           i # j => diagnostic_logs[i].log_order # diagnostic_logs[j].log_order
    /\ in_flight = <<>>
           => /\ {s.snapshot_order : s \in AnswerSnapshots} = 1..Len(asked_questions)
              /\ {l.log_order : l \in AnswerLogs} = {k + 2 : k \in 1..Len(asked_questions)}
              /\ \A s \in AnswerSnapshots :
                     asked_questions[s.snapshot_order] = s.trigger_event

====
